---- MODULE Spec2Model ----
(***************************************************************************)
(* Task queue and execution dispatch of tools/claude_assistant.py and the  *)
(* background poller claude_queue_processor.py.                            *)
(*                                                                         *)
(* The shared files are the state: the queue document                      *)
(* (data/claude_task_queue.json), the result store                         *)
(* (data/claude_task_results.json), the archive log, the telemetry         *)
(* snapshot (data/last_execution_telemetry.json) and the lock sentinel     *)
(* (data/execute_queue.lock).  Each tool action is one step; execute_queue *)
(* is split at its file operations because several processes run it at    *)
(* once.  Timestamps are values of a logical clock that every operation     *)
(* reads and every write of a Result advances, so that the completed_at    *)
(* stamps of two Results differ.                                           *)
(* Fields that no guard of the code reads (created_at, context, output,    *)
(* actions_taken, execution_time_seconds) are left out of the records.     *)
(***************************************************************************)
EXTENDS Integers, Sequences, FiniteSets, TLC

\* ---------------------------------------------------------------- bounds
MaxTasks == 2
MaxTime == 3
NumCallers == 2
MaxAgents == 2
MaxTokens == 2
NumBatchTasks == 2
NumFillers == 10
MaxRepeats == 1
MaxBatchLen == 2

\* ------------------------------------------------------ program constants
\* "Archive old results if count > 10 (keep last 10)"
RetentionCap == 10

\* ------------------------------------------------------------ value sets
NoId == 0
NoTime == 0
NoBatch == 0
NoDesc == ""
NoPrio == ""
NoStatus == ""

MainIds == 1..MaxTasks
ArchiveIds == 1..(NumBatchTasks + NumFillers)
Faults == {"none", "read", "write"}
Callers == 1..NumCallers

\* batch_id generated by assign_task when the caller gives none:
\* "batch_<now>_<first 8 characters of task_id>"; task ids are taken to
\* differ within their first 8 characters.
AutoBatch(task_id) == 100 + task_id

NoTokens == [input |-> -1, output |-> -1, total |-> -1]
NoSnapshot == [tokens_input |-> -1, tokens_output |-> -1, task_id |-> NoId]
NoLock == [present |-> FALSE, readable |-> FALSE, pid |-> 0]

VARIABLES
    queue_exists,   \* data/claude_task_queue.json exists
    queue_writable, \* its owner may write it (S_IWUSR is set in its mode)
    queue,          \* its "tasks" mapping: task_id -> task record
    results,        \* "results" mapping of the result store: task_id -> Result
    archive,        \* the archive log: sequence of archived entries
    telemetry,      \* the telemetry snapshot file, or NoSnapshot
    lock,           \* the lock sentinel file
    now,            \* the clock
    ret,            \* what the last tool action returned
    pc,             \* position of each caller inside its call (execute_queue,
                    \* or assign_task / log_task_completion taken step by step)
    caller_alive,   \* whether the caller's process (its pid) still exists
    pq_loaded,      \* the queue document the caller's call has loaded
    pq_result,      \* the process_queue result (pending task ids) of a caller,
                    \* or the task id a step-by-step call is about
    exec_result,    \* what the caller's execute_queue returned
    passed,         \* history: what the sentinel was when the call checked it
    call_saw,       \* history: the agents alive when the call began
    agents,         \* the agent sessions spawned so far
    processed_tasks,\* ClaudeQueueProcessor.processed_tasks
    poller_running  \* tasks whose poller session has not exited yet

vars == <<queue_exists, queue_writable, queue, results, archive, telemetry, lock, now, ret,
          pc, caller_alive, pq_loaded, pq_result, exec_result, passed,
          call_saw, agents, processed_tasks, poller_running>>

fileVars == <<queue_exists, queue_writable, queue, results, archive,
              telemetry>>
callerVars == <<pc, caller_alive, pq_loaded, pq_result, exec_result, passed,
                call_saw>>
pollerVars == <<processed_tasks, poller_running>>

\* A returned value: its "status" field, the kind of its message, the task
\* status the message names (if any) and the task ids it lists (if any).
RetFull(op, task_id, status, kind, named, tasks) ==
    [op |-> op, task_id |-> task_id, status |-> status, kind |-> kind,
     named |-> named, tasks |-> tasks]

Ret(op, task_id, status, kind) ==
    RetFull(op, task_id, status, kind, NoStatus, {})

\* mutant: the record is written as already claimed
NewTask_Claimed(description, priority, batch_id) ==
    [status |-> "in_progress", description |-> description,
     priority |-> priority, batch_id |-> batch_id, started_at |-> 1,
     cancelled_at |-> NoTime, updated_at |-> NoTime, completed_at |-> NoTime]

\* queue["tasks"][task_id] = {...}: the record assign_task writes
NewTask(description, priority, batch_id) ==
    [status |-> "queued", description |-> description, priority |-> priority,
     batch_id |-> batch_id, started_at |-> NoTime, cancelled_at |-> NoTime,
     updated_at |-> NoTime, completed_at |-> NoTime]

\* del d[key]
Without(d, key) == [k \in (DOMAIN d) \ {key} |-> d[k]]
\* d[key] = value
With(d, key, value) ==
    [k \in (DOMAIN d) \cup {key} |-> IF k = key THEN value ELSE d[k]]

EmptyMap == [k \in {} |-> 0]

\* ------------------------------------------------------- safe_write_queue
\* The owner-write bit of the queue file after safe_write_queue: a file that
\* was read-only is made writable, written and made read-only again; a new
\* file is created writable.  A write that fails does so in open or in
\* json.dump, after the chmod, and leaves the file writable.
SafeWriteQueueMode(exists, writable, failed) == ~exists \/ failed \/ writable

\* open(queue_file, 'w') without the chmod: it raises PermissionError on a
\* file its owner may not write (the process is not the superuser)
PlainWriteFails(writable, fault) == fault = "write" \/ ~writable

\* ------------------------------------------------------------ assign_task
\* malformed: the queue document, when there is one, cannot be parsed
AssignTaskRead(task_id, description, batch_in, malformed) ==
    LET batch_id == IF batch_in = NoBatch THEN AutoBatch(task_id) ELSE batch_in
    IN
    IF batch_in = NoBatch /\ task_id = NoId
    THEN \* task_id[:8] on None raises before the validation
         /\ ret' = Ret("assign_task", task_id, "raised", "type_error")
         /\ UNCHANGED <<fileVars, lock, now, callerVars, agents, pollerVars>>
    ELSE IF task_id = NoId
    THEN /\ ret' = Ret("assign_task", task_id, "error", "missing_task_id")
         /\ UNCHANGED <<fileVars, lock, now, callerVars, agents, pollerVars>>
    ELSE IF description = NoDesc
    THEN /\ ret' = Ret("assign_task", task_id, "error", "missing_description")
         /\ UNCHANGED <<fileVars, lock, now, callerVars, agents, pollerVars>>
    ELSE IF queue_exists /\ malformed
    THEN \* json.load raises outside any try
         /\ ret' = Ret("assign_task", task_id, "raised", "json_decode_error")
         /\ UNCHANGED <<fileVars, lock, now, callerVars, agents, pollerVars>>
    ELSE /\ queue' = With(queue, task_id, NewTask(description, "medium", batch_id))
         /\ queue_exists' = TRUE
         /\ queue_writable' = SafeWriteQueueMode(queue_exists, queue_writable, FALSE)
         /\ ret' = Ret("assign_task", task_id, "success", "assigned")
         /\ UNCHANGED <<results, archive, telemetry, lock, now, callerVars,
                        agents, pollerVars>>

\* the call on a queue document that can be parsed
AssignTask(task_id, description, batch_in) ==
    AssignTaskRead(task_id, description, batch_in, FALSE)

\* ------------------------------------------------------- check_task_status
\* mutant: the status the Result holds is reported
ReportedResultStatus_Stored(result) == result.status

\* "task_status": "done", whatever the Result holds
ReportedResultStatus(result) == "done"

\* qfault, rfault: reading the queue document, the result store fails
CheckTaskStatus(task_id, qfault, rfault) ==
    /\ UNCHANGED <<fileVars, lock, now, callerVars, agents, pollerVars>>
    /\ IF task_id = NoId
       THEN ret' = Ret("check_task_status", task_id, "error", "missing_task_id")
       ELSE IF queue_exists /\ qfault = "read"
       THEN \* json.load raises outside any try
            ret' = Ret("check_task_status", task_id, "raised", "json_decode_error")
       ELSE IF queue_exists /\ task_id \in DOMAIN queue
       THEN ret' = RetFull("check_task_status", task_id, "success", "in_queue",
                           queue[task_id].status, {})
       ELSE IF rfault = "read"
       THEN ret' = Ret("check_task_status", task_id, "error", "read_error")
       ELSE IF task_id \in DOMAIN results
       THEN ret' = RetFull("check_task_status", task_id, "success", "in_results",
                           ReportedResultStatus(results[task_id]), {})
       ELSE ret' = Ret("check_task_status", task_id, "error", "not_found")

\* ------------------------------------------------------------ cancel_task
\* mutant: the guard forgets the error status
CancelStatusBlocked_OnlyDone(current_status) == current_status \in {"done"}

\* if current_status in ["done", "error"]
CancelStatusBlocked(current_status) == current_status \in {"done", "error"}

CancelTask(task_id, fault) ==
    /\ UNCHANGED <<queue_exists, queue_writable, results, archive, telemetry, lock, now,
                   callerVars, agents, pollerVars>>
    /\ IF task_id = NoId
       THEN /\ ret' = Ret("cancel_task", task_id, "error", "missing_task_id")
            /\ UNCHANGED queue
       ELSE IF ~queue_exists
       THEN /\ ret' = Ret("cancel_task", task_id, "error", "no_queue")
            /\ UNCHANGED queue
       ELSE IF fault = "read"
       THEN /\ ret' = Ret("cancel_task", task_id, "error", "read_error")
            /\ UNCHANGED queue
       ELSE IF task_id \notin DOMAIN queue
       THEN /\ ret' = Ret("cancel_task", task_id, "error", "not_found")
            /\ UNCHANGED queue
       ELSE IF CancelStatusBlocked(queue[task_id].status)
       THEN /\ ret' = RetFull("cancel_task", task_id, "error", "state_conflict",
                            queue[task_id].status, {})
            /\ UNCHANGED queue
       ELSE IF PlainWriteFails(queue_writable, fault)
       THEN /\ ret' = Ret("cancel_task", task_id, "error", "write_error")
            /\ UNCHANGED queue
       ELSE /\ queue' = [queue EXCEPT ![task_id].status = "cancelled",
                                      ![task_id].cancelled_at = now]
            /\ ret' = RetFull("cancel_task", task_id, "success", "cancelled",
                            queue[task_id].status, {})

\* ------------------------------------------------------------ update_task
\* mutant: the guard also lets a claimed task through
UpdateStatusAllowed_Claimed(current_status) ==
    current_status \in {"queued", "in_progress"}

\* if task.get("status") != "queued"
UpdateStatusAllowed(current_status) == current_status = "queued"

UpdateTask(task_id, new_description, new_priority, fault) ==
    /\ UNCHANGED <<queue_exists, queue_writable, results, archive, telemetry, lock, now,
                   callerVars, agents, pollerVars>>
    /\ IF task_id = NoId
       THEN /\ ret' = Ret("update_task", task_id, "error", "missing_task_id")
            /\ UNCHANGED queue
       ELSE IF new_description = NoDesc /\ new_priority = NoPrio
       THEN /\ ret' = Ret("update_task", task_id, "error", "no_fields")
            /\ UNCHANGED queue
       ELSE IF ~queue_exists
       THEN /\ ret' = Ret("update_task", task_id, "error", "no_queue")
            /\ UNCHANGED queue
       ELSE IF fault = "read"
       THEN /\ ret' = Ret("update_task", task_id, "error", "read_error")
            /\ UNCHANGED queue
       ELSE IF task_id \notin DOMAIN queue
       THEN /\ ret' = Ret("update_task", task_id, "error", "not_found")
            /\ UNCHANGED queue
       ELSE IF ~UpdateStatusAllowed(queue[task_id].status)
       THEN /\ ret' = RetFull("update_task", task_id, "error", "state_conflict",
                            queue[task_id].status, {})
            /\ UNCHANGED queue
       ELSE IF PlainWriteFails(queue_writable, fault)
       THEN /\ ret' = Ret("update_task", task_id, "error", "write_error")
            /\ UNCHANGED queue
       ELSE /\ queue' = [queue EXCEPT
                   ![task_id].description =
                       IF new_description # NoDesc THEN new_description ELSE @,
                   ![task_id].priority =
                       IF new_priority # NoPrio THEN new_priority ELSE @,
                   ![task_id].updated_at = now]
            /\ ret' = Ret("update_task", task_id, "success", "updated")

\* ---------------------------------------------------------- process_queue
Pending(q) == {k \in DOMAIN q : q[k].status = "queued"}

\* mutant: the loop also marks the cancelled tasks
ClaimAll_AlsoCancelled(q, stamp) ==
    [k \in DOMAIN q |->
        IF q[k].status \in {"queued", "cancelled"}
        THEN [q[k] EXCEPT !.status = "in_progress", !.started_at = stamp]
        ELSE q[k]]

\* every queued task becomes in_progress with started_at = stamp
ClaimAll(q, stamp) ==
    [k \in DOMAIN q |->
        IF q[k].status = "queued"
        THEN [q[k] EXCEPT !.status = "in_progress", !.started_at = stamp]
        ELSE q[k]]

ProcessQueue(fault) ==
    /\ UNCHANGED <<queue_exists, results, archive, telemetry, lock, now,
                   callerVars, agents, pollerVars>>
    /\ queue_writable' =
           IF queue_exists /\ fault # "read" /\ Pending(queue) # {}
           THEN SafeWriteQueueMode(TRUE, queue_writable, fault = "write")
           ELSE queue_writable
    /\ IF ~queue_exists
       THEN /\ ret' = Ret("process_queue", NoId, "success", "no_queue")
            /\ UNCHANGED queue
       ELSE IF fault = "read"
       THEN /\ ret' = Ret("process_queue", NoId, "error", "read_error")
            /\ UNCHANGED queue
       ELSE IF Pending(queue) = {}
       THEN /\ ret' = Ret("process_queue", NoId, "success", "no_pending")
            /\ UNCHANGED queue
       ELSE \* a failed save is only warned about: the tasks are returned anyway
            /\ queue' = IF fault = "write" THEN queue ELSE ClaimAll(queue, now)
            /\ ret' = RetFull("process_queue", NoId, "success", "pending",
                              NoStatus, Pending(queue))

\* ---------------------------------------------------- mark_task_in_progress
\* if current_status not in ["queued", "in_progress"]
MarkStatusAllowed(current_status) == current_status \in {"queued", "in_progress"}

MarkTaskInProgress(task_id, fault) ==
    /\ UNCHANGED <<queue_exists, queue_writable, results, archive, telemetry,
                   lock, now, callerVars, agents, pollerVars>>
    /\ IF task_id = NoId
       THEN /\ ret' = Ret("mark_task_in_progress", task_id, "error",
                          "missing_task_id")
            /\ UNCHANGED queue
       ELSE IF ~queue_exists
       THEN /\ ret' = Ret("mark_task_in_progress", task_id, "error", "no_queue")
            /\ UNCHANGED queue
       ELSE IF fault = "read"
       THEN /\ ret' = Ret("mark_task_in_progress", task_id, "error", "read_error")
            /\ UNCHANGED queue
       ELSE IF task_id \notin DOMAIN queue
       THEN /\ ret' = Ret("mark_task_in_progress", task_id, "error", "not_found")
            /\ UNCHANGED queue
       ELSE IF ~MarkStatusAllowed(queue[task_id].status)
       THEN /\ ret' = RetFull("mark_task_in_progress", task_id, "error",
                              "state_conflict", queue[task_id].status, {})
            /\ UNCHANGED queue
       ELSE IF PlainWriteFails(queue_writable, fault)
       THEN /\ ret' = Ret("mark_task_in_progress", task_id, "error",
                          "write_error")
            /\ UNCHANGED queue
       ELSE \* started_at is set only when the record has none
            /\ queue' = [queue EXCEPT
                   ![task_id].status = "in_progress",
                   ![task_id].started_at = IF @ = NoTime THEN now ELSE @]
            /\ ret' = Ret("mark_task_in_progress", task_id, "success", "marked")

\* ------------------------------------------------- capture_token_telemetry
CaptureTokenTelemetry(task_id, tokens_input, tokens_output) ==
    /\ UNCHANGED <<queue_exists, queue_writable, queue, results, archive, lock, now,
                   callerVars, agents, pollerVars>>
    /\ IF task_id = NoId
       THEN /\ ret' = Ret("capture_token_telemetry", task_id, "error",
                          "missing_task_id")
            /\ UNCHANGED telemetry
       ELSE /\ telemetry' = [tokens_input |-> tokens_input,
                             tokens_output |-> tokens_output,
                             task_id |-> task_id]
            /\ ret' = Ret("capture_token_telemetry", task_id, "success",
                          "captured")

\* ------------------------------------------------------ log_task_completion
NoAuto == [tokens_input |-> -1, tokens_output |-> -1]

RECURSIVE SortedByCompletedAt(_, _)
\* sorted(results.items(), key=completed_at), oldest first, as task ids
SortedByCompletedAt(res, ids) ==
    IF ids = {} THEN <<>>
    ELSE LET oldest == CHOOSE x \in ids :
                           \A y \in ids : res[x].completed_at <= res[y].completed_at
         IN  <<oldest>> \o SortedByCompletedAt(res, ids \ {oldest})

\* sorted_results[:-10]
ToArchive(res) ==
    LET sorted == SortedByCompletedAt(res, DOMAIN res)
    IN  SubSeq(sorted, 1, Len(sorted) - RetentionCap)

ArchiveEntry(res, task_id) ==
    [task_id |-> task_id, status |-> res[task_id].status,
     completed_at |-> res[task_id].completed_at,
     batch_id |-> res[task_id].batch_id,
     batch_position |-> res[task_id].batch_position,
     tokens |-> res[task_id].tokens]

ArchiveNeeded(res) == Cardinality(DOMAIN res) > RetentionCap

\* the store without the entries of sorted_results[:-10]
Pruned(res) ==
    LET to_archive == ToArchive(res)
    IN  [k \in (DOMAIN res) \ {to_archive[i] : i \in 1..Len(to_archive)} |-> res[k]]

\* mutant: the store is pruned whether or not the append went through
KeptAfterArchive_Always(res, appended) ==
    IF ArchiveNeeded(res) THEN Pruned(res) ELSE res

\* results["results"] = to_keep stands after the append, inside the same try
KeptAfterArchive(res, appended) == IF appended THEN Pruned(res) ELSE res

\* completed_in_batch: Results of the loaded (and pruned) store with this batch_id
CompletedInBatch(res, batch_id) ==
    Cardinality({k \in DOMAIN res : res[k].batch_id = batch_id})

IsFirstTaskInBatch(res, batch_id) ==
    batch_id # NoBatch /\ CompletedInBatch(res, batch_id) = 0

BatchPosition(res, batch_id) ==
    IF batch_id # NoBatch THEN CompletedInBatch(res, batch_id) + 1 ELSE 0

\* tokens merged from a snapshot file
MergedTokens(snapshot, batch_id, is_first) ==
    LET input_tokens == IF batch_id # NoBatch /\ ~is_first
                        THEN 0 ELSE snapshot.tokens_input
        output_tokens == snapshot.tokens_output
    IN  IF snapshot.tokens_input # 0 \/ output_tokens # 0
        THEN [input |-> input_tokens, output |-> output_tokens,
              total |-> input_tokens + output_tokens]
        ELSE NoTokens

\* tokens merged from the auto-captured transcript (no batch adjustment)
AutoTokens(auto) ==
    [input |-> auto.tokens_input, output |-> auto.tokens_output,
     total |-> auto.tokens_input + auto.tokens_output]

\* the task is looked up and removed only when the queue document can be read
FoundInQueue(task_id, qfault) ==
    queue_exists /\ qfault # "read" /\ task_id \in DOMAIN queue

\* faults of the telemetry merge: reading the snapshot, the second save of
\* the result store, removing the snapshot file
MergeFaults == {"none", "read", "write", "remove"}

\* What follows the queue update: the result store, the archive log and the
\* telemetry merge, for a task whose batch_id was read from the queue
\* document (NoBatch when the task was not found there).
LogResult(task_id, status, task_batch_id, rfault, afault, auto, mfault) ==
    LET loaded == IF rfault = "read" THEN EmptyMap ELSE results
        \* afault: makedirs or the open of the archive file for append fails
        archived == ArchiveNeeded(loaded) /\ ~afault
        to_archive == IF archived THEN ToArchive(loaded) ELSE <<>>
        kept == KeptAfterArchive(loaded, archived)
        is_first == IsFirstTaskInBatch(kept, task_batch_id)
        entry == [status |-> status, completed_at |-> now,
                  batch_id |-> task_batch_id,
                  batch_position |-> BatchPosition(kept, task_batch_id),
                  tokens |-> NoTokens]
        tokens == IF telemetry # NoSnapshot
                  THEN IF mfault \in {"read", "write"}
                       THEN NoTokens  \* the file keeps what the first save wrote
                       ELSE MergedTokens(telemetry, task_batch_id, is_first)
                  ELSE IF auto # NoAuto THEN AutoTokens(auto) ELSE NoTokens
    IN
    /\ archive' = archive \o
           [i \in 1..Len(to_archive) |-> ArchiveEntry(loaded, to_archive[i])]
    /\ now' = now + 1
    /\ IF rfault = "write"
       THEN \* the first save fails: the call returns the error
            /\ ret' = Ret("log_task_completion", task_id, "error", "write_error")
            /\ UNCHANGED <<results, telemetry>>
       ELSE /\ results' = With(kept, task_id, [entry EXCEPT !.tokens = tokens])
            /\ telemetry' = IF mfault = "none" THEN NoSnapshot ELSE telemetry
            /\ ret' = Ret("log_task_completion", task_id, "success", "logged")

LogTaskCompletionMerge(task_id, status, qfault, rfault, afault, auto, mfault) ==
    LET in_queue == FoundInQueue(task_id, qfault)
        task_batch_id == IF in_queue THEN queue[task_id].batch_id ELSE NoBatch
        queue_after == IF in_queue /\ qfault # "write"
                       THEN Without(queue, task_id) ELSE queue
    IN
    /\ UNCHANGED <<queue_exists, lock, callerVars, agents, pollerVars>>
    /\ IF task_id = NoId
       THEN /\ ret' = Ret("log_task_completion", task_id, "error", "missing_task_id")
            /\ UNCHANGED <<queue_writable, queue, results, archive, telemetry, now>>
       ELSE IF status = NoStatus
       THEN /\ ret' = Ret("log_task_completion", task_id, "error", "missing_status")
            /\ UNCHANGED <<queue_writable, queue, results, archive, telemetry, now>>
       ELSE /\ queue' = queue_after
            /\ queue_writable' =
                   IF in_queue
                   THEN SafeWriteQueueMode(TRUE, queue_writable, qfault = "write")
                   ELSE queue_writable
            /\ LogResult(task_id, status, task_batch_id, rfault, afault, auto,
                         mfault)

\* the call with the telemetry merge going through
LogTaskCompletion(task_id, status, qfault, rfault, afault, auto) ==
    LogTaskCompletionMerge(task_id, status, qfault, rfault, afault, auto, "none")

\* ------------------- assign_task and log_task_completion, step by step
\* The same two operations as run by concurrent processes: the load of the
\* queue document and the save of the whole document are separate steps,
\* and other processes run between them.  What log_task_completion does
\* after its save touches the queue document no more and is part of the
\* save step.  The calls are valid and their reads and writes succeed.
WriterTask(p) == CHOOSE t \in pq_result[p] : TRUE

\* mutant: the save merges the change into what the file holds now
WrittenDocument_Merged(loaded, current) == current

\* json.dump(queue, f): the document in memory, whatever the file holds now
WrittenDocument(loaded, current) == loaded

AssignLoad(p, task_id) ==
    /\ pc[p] = "idle" /\ caller_alive[p]
    /\ pc' = [pc EXCEPT ![p] = "assign_save"]
    /\ pq_loaded' = [pq_loaded EXCEPT ![p] =
                         IF queue_exists THEN queue ELSE EmptyMap]
    /\ pq_result' = [pq_result EXCEPT ![p] = {task_id}]
    /\ exec_result' = [exec_result EXCEPT ![p] = "running"]
    /\ UNCHANGED <<fileVars, lock, now, ret, caller_alive, passed, call_saw,
                   agents, pollerVars>>

AssignSave(p) ==
    LET task_id == WriterTask(p)
    IN
    /\ pc[p] = "assign_save"
    /\ queue' = With(WrittenDocument(pq_loaded[p], queue), task_id,
                     NewTask("d1", "medium", AutoBatch(task_id)))
    /\ queue_exists' = TRUE
    /\ queue_writable' = SafeWriteQueueMode(queue_exists, queue_writable, FALSE)
    /\ ret' = Ret("assign_task", task_id, "success", "assigned")
    /\ pc' = [pc EXCEPT ![p] = "idle"]
    /\ pq_loaded' = [pq_loaded EXCEPT ![p] = EmptyMap]
    /\ exec_result' = [exec_result EXCEPT ![p] = "assigned"]
    /\ UNCHANGED <<results, archive, telemetry, lock, now, caller_alive,
                   pq_result, passed, call_saw, agents, pollerVars>>

\* a task that is not in the loaded document leads to no save of the queue
CompleteLoad(p, task_id) ==
    /\ pc[p] = "idle" /\ caller_alive[p]
    /\ pq_result' = [pq_result EXCEPT ![p] = {task_id}]
    /\ IF queue_exists /\ task_id \in DOMAIN queue
       THEN /\ pc' = [pc EXCEPT ![p] = "complete_save"]
            /\ pq_loaded' = [pq_loaded EXCEPT ![p] = queue]
            /\ exec_result' = [exec_result EXCEPT ![p] = "running"]
            /\ UNCHANGED <<fileVars, now, ret>>
       ELSE /\ LogResult(task_id, "done", NoBatch, "none", FALSE, NoAuto, "none")
            /\ exec_result' = [exec_result EXCEPT ![p] = "logged"]
            /\ UNCHANGED <<queue_exists, queue_writable, queue, pc, pq_loaded>>
    /\ UNCHANGED <<lock, caller_alive, passed, call_saw, agents, pollerVars>>

CompleteSave(p) ==
    LET task_id == WriterTask(p)
    IN
    /\ pc[p] = "complete_save"
    /\ queue' = Without(WrittenDocument(pq_loaded[p], queue), task_id)
    /\ queue_writable' = SafeWriteQueueMode(TRUE, queue_writable, FALSE)
    /\ LogResult(task_id, "done", pq_loaded[p][task_id].batch_id, "none", FALSE,
                 NoAuto, "none")
    /\ pc' = [pc EXCEPT ![p] = "idle"]
    /\ pq_loaded' = [pq_loaded EXCEPT ![p] = EmptyMap]
    /\ exec_result' = [exec_result EXCEPT ![p] = "logged"]
    /\ UNCHANGED <<queue_exists, lock, caller_alive, pq_result, passed,
                   call_saw, agents, pollerVars>>

\* ------------------------------------- get_all_results / get_task_results
\* both return the "results" mapping of the result store and nothing of
\* the archive log
GetAllResults == results
GetTaskResults == results

\* ------------------------------------------------------ batch_assign_tasks
\* An item of the "tasks" list: a dictionary with its fields, or some other
\* JSON value (a string, a number, a list, null).
DictItem(task_id, description, batch_id) ==
    [is_dict |-> TRUE, task_id |-> task_id, description |-> description,
     batch_id |-> batch_id]
NotADict ==
    [is_dict |-> FALSE, task_id |-> NoId, description |-> NoDesc,
     batch_id |-> NoBatch]
BatchItems ==
    {NotADict, DictItem(NoId, "d1", NoBatch)}
    \cup {DictItem(t, d, NoBatch) : t \in MainIds, d \in {"d1", NoDesc}}
BatchInputs == UNION {[1..n -> BatchItems] : n \in 0..MaxBatchLen}

BatchRet(status, kind, success_count, failed_count, details) ==
    [op |-> "batch_assign_tasks", task_id |-> NoId, status |-> status,
     kind |-> kind, named |-> NoStatus, tasks |-> {},
     success_count |-> success_count, failed_count |-> failed_count,
     details |-> details]

\* assign_task(task_params) for an item that carries a task_id: its status
\* and the queue document it leaves
AssignResult(q, task) ==
    LET batch_id == IF task.batch_id = NoBatch THEN AutoBatch(task.task_id)
                    ELSE task.batch_id
    IN  IF task.description = NoDesc
        THEN [status |-> "error", queue |-> q]
        ELSE [status |-> "success",
              queue |-> With(q, task.task_id,
                             NewTask(task.description, "medium", batch_id))]

RECURSIVE BatchLoop(_, _, _)
\* "for i, task in enumerate(tasks)": task.get("task_id") comes first and
\* raises AttributeError on an item that is no dictionary, which ends the
\* loop and the call
BatchLoop(tasks, i, acc) ==
    IF i > Len(tasks) THEN acc
    ELSE LET task == tasks[i]
             failed == [acc EXCEPT !.details = Append(@, "error"),
                                   !.failed_count = @ + 1]
         IN  IF ~task.is_dict THEN [acc EXCEPT !.raised = TRUE]
             ELSE IF task.task_id = NoId THEN BatchLoop(tasks, i + 1, failed)
             ELSE LET r == AssignResult(acc.queue, task)
                  IN  IF r.status = "success"
                      THEN BatchLoop(tasks, i + 1,
                               [acc EXCEPT !.queue = r.queue,
                                           !.details = Append(@, "success"),
                                           !.success_count = @ + 1])
                      ELSE BatchLoop(tasks, i + 1, failed)

BatchAssignTasks(tasks) ==
    LET acc == BatchLoop(tasks, 1,
                   [queue |-> queue, details |-> <<>>, success_count |-> 0,
                    failed_count |-> 0, raised |-> FALSE])
    IN
    /\ UNCHANGED <<results, archive, telemetry, lock, now, callerVars, agents,
                   pollerVars>>
    /\ IF tasks = <<>>
       THEN /\ ret' = BatchRet("error", "missing_tasks", 0, 0, <<>>)
            /\ UNCHANGED <<queue_exists, queue_writable, queue>>
       ELSE /\ queue' = acc.queue
            /\ queue_exists' = (queue_exists \/ acc.success_count > 0)
            /\ queue_writable' =
                   IF acc.success_count > 0
                   THEN SafeWriteQueueMode(queue_exists, queue_writable, FALSE)
                   ELSE queue_writable
            /\ ret' = IF acc.raised
                      THEN \* the exception leaves the call: nothing is returned
                           BatchRet("raised", "attribute_error", 0, 0, <<>>)
                      ELSE BatchRet(IF acc.success_count > 0 THEN "success"
                                    ELSE "error",
                                    "summary", acc.success_count,
                                    acc.failed_count, acc.details)

\* ------------------------------------------- ClaudeQueueProcessor (poller)
\* _check_for_new_tasks with _spawn_claude_session for every pending task
PollerPending == {k \in DOMAIN queue :
                     queue[k].status = "queued" /\ k \notin processed_tasks}

\* malformed: json.load raises JSONDecodeError, "File might be mid-write,
\* try again next poll"
PollerCheckForNewTasksRead(installed, malformed) ==
    /\ queue_exists
    /\ IF malformed
       THEN UNCHANGED vars
       ELSE /\ PollerPending # {}
            /\ queue' = [k \in DOMAIN queue |->
                   IF k \in PollerPending /\ ~PlainWriteFails(queue_writable, "none")
                   THEN IF installed
                        THEN [queue[k] EXCEPT !.status = "in_progress",
                                              !.started_at = now]
                        ELSE [queue[k] EXCEPT !.status = "error",
                                              !.started_at = now,
                                              !.completed_at = now]
                   ELSE queue[k]]
            /\ processed_tasks' = IF installed
                                  THEN processed_tasks \cup PollerPending
                                  ELSE processed_tasks
            /\ poller_running' = IF installed
                                 THEN poller_running \cup PollerPending
                                 ELSE poller_running
            /\ UNCHANGED <<queue_exists, queue_writable, results, archive,
                           telemetry, lock, now, ret, callerVars, agents>>

\* the poll on a queue document that can be parsed
PollerCheckForNewTasks(installed) == PollerCheckForNewTasksRead(installed, FALSE)

\* wait_for_completion of one poller session: the status it records, in
\* the queue document (when the task is still there and the file can be
\* written) and as a Result
PollerStatus(exit_ok) == IF exit_ok THEN "completed" ELSE "error"

PollerSessionExit(task_id, exit_ok) ==
    /\ task_id \in poller_running
    /\ poller_running' = poller_running \ {task_id}
    /\ queue' = IF /\ queue_exists
                   /\ task_id \in DOMAIN queue
                   /\ ~PlainWriteFails(queue_writable, "none")
                THEN [queue EXCEPT ![task_id].status = PollerStatus(exit_ok),
                                   ![task_id].completed_at = now]
                ELSE queue
    /\ results' = With(results, task_id,
                       [status |-> PollerStatus(exit_ok), completed_at |-> now,
                        batch_id |-> NoBatch, batch_position |-> 0,
                        tokens |-> NoTokens])
    /\ now' = now + 1
    /\ UNCHANGED <<queue_exists, queue_writable, archive, telemetry, lock, ret,
                   processed_tasks, callerVars, agents>>

\* ---------------------------------------------------------- execute_queue
\* One step per file operation.  A caller is an operating-system process;
\* its pid is its index.  Creating the sentinel (in the data directory)
\* is taken to succeed.
LockOf(pid) == [present |-> TRUE, readable |-> TRUE, pid |-> pid]
\* open(lockfile, 'w') has truncated the file and nothing is written yet
TruncatedLock == [present |-> TRUE, readable |-> FALSE, pid |-> 0]

othersUnchanged == <<queue_exists, results, archive, telemetry, now, ret,
                     caller_alive, pollerVars>>

\* mutant: the liveness probe reports every pid alive
PidAlive_Always(pid) == TRUE

\* os.kill(pid, 0) succeeds
PidAlive(pid) == caller_alive[pid]

\* what the sentinel is, whatever the code makes of it
SentinelState ==
    IF ~lock.present THEN "vanished"
    ELSE IF ~lock.readable THEN "unreadable"
    ELSE IF caller_alive[lock.pid] THEN "live" ELSE "stale"

AliveAgents == {a \in DOMAIN agents : agents[a].alive}

\* the nested-session guard: CLAUDECODE is set in the caller's environment
ExecNested(p) ==
    /\ pc[p] = "idle" /\ caller_alive[p]
    /\ exec_result' = [exec_result EXCEPT ![p] = "nested_error"]
    /\ passed' = [passed EXCEPT ![p] = "none"]
    /\ call_saw' = [call_saw EXCEPT ![p] = {}]
    /\ pq_result' = [pq_result EXCEPT ![p] = {}]
    /\ UNCHANGED <<queue, lock, pc, pq_loaded, agents, queue_writable,
                   othersUnchanged>>

\* if os.path.exists(lockfile)
ExecCheck(p) ==
    /\ pc[p] = "idle" /\ caller_alive[p]
    /\ pc' = [pc EXCEPT ![p] = IF lock.present THEN "read" ELSE "open"]
    /\ exec_result' = [exec_result EXCEPT ![p] = "running"]
    /\ passed' = [passed EXCEPT ![p] = IF lock.present THEN "none" ELSE "absent"]
    /\ call_saw' = [call_saw EXCEPT ![p] = AliveAgents]
    /\ pq_result' = [pq_result EXCEPT ![p] = {}]
    /\ UNCHANGED <<queue, lock, pq_loaded, agents, queue_writable,
                   othersUnchanged>>

\* read the sentinel and probe its pid
ExecReadLock(p) ==
    /\ pc[p] = "read"
    /\ passed' = [passed EXCEPT ![p] = SentinelState]
    /\ IF lock.present /\ lock.readable /\ PidAlive(lock.pid)
       THEN /\ pc' = [pc EXCEPT ![p] = "idle"]
            /\ exec_result' = [exec_result EXCEPT ![p] = "already_running"]
       ELSE \* a dead pid leads to os.remove; a sentinel that is gone or cannot
            \* be parsed raises, is warned about, and the call goes on
            /\ pc' = [pc EXCEPT ![p] =
                         IF lock.present /\ lock.readable THEN "remove" ELSE "open"]
            /\ UNCHANGED exec_result
    /\ UNCHANGED <<queue, lock, pq_loaded, pq_result, call_saw, agents,
                   queue_writable,
                   othersUnchanged>>

\* os.remove(lockfile) of the stale sentinel
ExecRemoveStale(p) ==
    /\ pc[p] = "remove"
    /\ lock' = NoLock
    /\ pc' = [pc EXCEPT ![p] = "open"]
    /\ UNCHANGED <<queue, pq_loaded, pq_result, exec_result, passed, call_saw,
                   agents, queue_writable,
                   othersUnchanged>>

\* with open(lockfile, 'w'): the file exists and is empty
ExecOpenLock(p) ==
    /\ pc[p] = "open"
    /\ lock' = TruncatedLock
    /\ pc' = [pc EXCEPT ![p] = "write"]
    /\ UNCHANGED <<queue, pq_loaded, pq_result, exec_result, passed, call_saw,
                   agents, queue_writable,
                   othersUnchanged>>

\* json.dump of created_at and os.getpid(); a file another process has
\* deleted since the open stays deleted
ExecWriteLock(p) ==
    /\ pc[p] = "write"
    /\ lock' = IF lock.present THEN LockOf(p) ELSE lock
    /\ pc' = [pc EXCEPT ![p] = "load"]
    /\ UNCHANGED <<queue, pq_loaded, pq_result, exec_result, passed, call_saw,
                   agents, queue_writable,
                   othersUnchanged>>

\* process_queue: the load.  No queue file, an unreadable document or no
\* queued task give task_count 0.
ExecLoadQueue(p, fault) ==
    /\ pc[p] = "load"
    /\ IF ~queue_exists \/ fault = "read" \/ Pending(queue) = {}
       THEN /\ pc' = [pc EXCEPT ![p] = "release"]
            /\ exec_result' = [exec_result EXCEPT ![p] =
                   IF queue_exists /\ fault = "read" THEN "queue_error"
                   ELSE "no_tasks"]
            /\ UNCHANGED pq_loaded
       ELSE /\ pc' = [pc EXCEPT ![p] = "save"]
            /\ pq_loaded' = [pq_loaded EXCEPT ![p] = queue]
            /\ UNCHANGED exec_result
    /\ UNCHANGED <<queue, lock, pq_result, passed, call_saw, agents,
                   queue_writable,
                   othersUnchanged>>

\* process_queue: the save of the loaded document with its queued tasks
\* marked; a failed save is only warned about
ExecSaveQueue(p, fault) ==
    /\ pc[p] = "save"
    /\ queue' = IF fault = "write" THEN queue ELSE ClaimAll(pq_loaded[p], now)
    /\ queue_writable' = SafeWriteQueueMode(TRUE, queue_writable, fault = "write")
    /\ pq_result' = [pq_result EXCEPT ![p] = Pending(pq_loaded[p])]
    /\ pq_loaded' = [pq_loaded EXCEPT ![p] = EmptyMap]
    /\ pc' = [pc EXCEPT ![p] = "spawn"]
    /\ UNCHANGED <<lock, exec_result, passed, call_saw, agents, othersUnchanged>>

\* mutant: the no-task path forgets to remove the sentinel
ReleasedLock_Kept(l) == l

\* os.remove(lockfile) when task_count is 0
ReleasedLock(l) == NoLock

ExecRelease(p) ==
    /\ pc[p] = "release"
    /\ lock' = ReleasedLock(lock)
    /\ pc' = [pc EXCEPT ![p] = "idle"]
    /\ UNCHANGED <<queue, pq_loaded, pq_result, exec_result, passed, call_saw,
                   agents, queue_writable,
                   othersUnchanged>>

\* the sentinel is rewritten with the task count, then subprocess.Popen
ExecSpawn(p, spawned) ==
    /\ pc[p] = "spawn"
    /\ spawned => Len(agents) < MaxAgents
    /\ lock' = LockOf(p)
    /\ agents' = IF spawned
                 THEN Append(agents, [alive |-> TRUE, tasks |-> pq_result[p]])
                 ELSE agents
    /\ exec_result' = [exec_result EXCEPT ![p] =
                          IF spawned THEN "task_started" ELSE "spawn_error"]
    /\ pc' = [pc EXCEPT ![p] = "idle"]
    /\ UNCHANGED <<queue, pq_loaded, pq_result, passed, call_saw, queue_writable,
                   othersUnchanged>>

\* the calling process ends: main() has printed the result and returns, or
\* the process is killed inside the call
CallerExit(p) ==
    /\ caller_alive[p]
    /\ caller_alive' = [caller_alive EXCEPT ![p] = FALSE]
    /\ pc' = [pc EXCEPT ![p] = "idle"]
    /\ pq_loaded' = [pq_loaded EXCEPT ![p] = EmptyMap]
    /\ exec_result' = [exec_result EXCEPT ![p] =
                          IF pc[p] = "idle" THEN @ ELSE "killed"]
    /\ UNCHANGED <<fileVars, lock, now, ret, pq_result, passed, call_saw,
                   agents, pollerVars>>

\* the agent session ends; its prompt tells it to rm the sentinel when all
\* tasks are complete, which it may or may not do
AgentExit(a, removes_lock) ==
    /\ a \in AliveAgents
    /\ agents' = [agents EXCEPT ![a] = [alive |-> FALSE, tasks |-> {}]]
    /\ lock' = IF removes_lock THEN NoLock ELSE lock
    /\ UNCHANGED <<fileVars, now, ret, callerVars, pollerVars>>

\* ----------------------------------------------------------------- Init
Init ==
    /\ queue_exists = FALSE
    /\ queue_writable = TRUE
    /\ queue = EmptyMap
    /\ results = EmptyMap
    /\ archive = <<>>
    /\ telemetry = NoSnapshot
    /\ lock = NoLock
    /\ now = 1
    /\ ret = Ret("none", NoId, "none", "none")
    /\ pc = [p \in Callers |-> "idle"]
    /\ caller_alive = [p \in Callers |-> TRUE]
    /\ pq_loaded = [p \in Callers |-> EmptyMap]
    /\ pq_result = [p \in Callers |-> {}]
    /\ exec_result = [p \in Callers |-> "none"]
    /\ passed = [p \in Callers |-> "none"]
    /\ call_saw = [p \in Callers |-> {}]
    /\ agents = <<>>
    /\ processed_tasks = {}
    /\ poller_running = {}

\* ------------------------------------------- task lifecycle specification
\* create, edit, cancel and claim, by the tool actions and by the poller
Assign == \E a \in ({NoId} \X {"d1"} \X {1, NoBatch})
                    \cup (MainIds \X {"d1", NoDesc} \X {NoBatch}) :
              AssignTask(a[1], a[2], a[3])
Cancel == \E t \in MainIds \cup {NoId}, f \in Faults : CancelTask(t, f)
UpdateInputs == {<<"d2", "high">>, <<"d2", NoPrio>>, <<NoDesc, NoPrio>>}
Update == \E t \in MainIds \cup {NoId}, f \in Faults, u \in UpdateInputs :
              UpdateTask(t, u[1], u[2], f)
Process == \E f \in Faults : ProcessQueue(f)
PollerCheck == \E installed \in BOOLEAN : PollerCheckForNewTasks(installed)

Next ==
    \/ Assign
    \/ Cancel
    \/ Update
    \/ Process
    \/ PollerCheck

Spec == Init /\ [][Next]_vars

\* ------------------------------------------------ completion specification
\* tasks are created, claimed and completed; reads and writes of the queue
\* document and of the result store may fail
AssignValid == \E t \in MainIds, b \in {1, NoBatch} : AssignTask(t, "d1", b)
Claim == ProcessQueue("none")
Capture == \E t \in MainIds, i \in {MaxTokens}, o \in {1} :
               CaptureTokenTelemetry(t, i, o)
Complete == now < MaxTime
            /\ \E t \in MainIds \cup {NoId}, s \in {"done", "error", NoStatus},
                  qf \in Faults, rf \in Faults :
                   LogTaskCompletion(t, s, qf, rf, FALSE, NoAuto)

NextComplete ==
    \/ AssignValid
    \/ Claim
    \/ Capture
    \/ Complete

SpecComplete == Init /\ [][NextComplete]_vars

\* ------------------------------------------------ dispatch specification
\* Tasks are created, processes call execute_queue one call at a time, and
\* callers and the sessions they spawn come and go.
NoCallInFlight == \A q \in Callers : pc[q] = "idle"

AssignForDispatch == \E t \in MainIds : AssignTask(t, "d1", NoBatch)
Nested == \E p \in Callers : NoCallInFlight /\ ExecNested(p)
Check == \E p \in Callers : NoCallInFlight /\ ExecCheck(p)
ReadLock == \E p \in Callers : ExecReadLock(p)
RemoveStale == \E p \in Callers : ExecRemoveStale(p)
OpenLock == \E p \in Callers : ExecOpenLock(p)
WriteLock == \E p \in Callers : ExecWriteLock(p)
LoadQueue == \E p \in Callers, f \in {"none", "read"} : ExecLoadQueue(p, f)
SaveQueue == \E p \in Callers, f \in {"none", "write"} : ExecSaveQueue(p, f)
Release == \E p \in Callers : ExecRelease(p)
Spawn == \E p \in Callers, spawned \in BOOLEAN : ExecSpawn(p, spawned)
ProcessExit == \E p \in Callers : CallerExit(p)
SessionExit == \E a \in DOMAIN agents, r \in BOOLEAN : AgentExit(a, r)

NextLock ==
    \/ AssignForDispatch
    \/ Nested
    \/ Check
    \/ ReadLock
    \/ RemoveStale
    \/ OpenLock
    \/ WriteLock
    \/ LoadQueue
    \/ SaveQueue
    \/ Release
    \/ Spawn
    \/ ProcessExit
    \/ SessionExit

SpecLock == Init /\ [][NextLock]_vars

\* ------------------------------------------ concurrent dispatch specification
\* The same calls, made by processes that run at the same time.
RaceAssign == \E t \in MainIds : AssignTask(t, "d1", NoBatch)
RaceCheck == \E p \in Callers : ExecCheck(p)
RaceSave == \E p \in Callers : ExecSaveQueue(p, "none")
RaceLoad == \E p \in Callers : ExecLoadQueue(p, "none")
RaceSpawn == \E p \in Callers : ExecSpawn(p, TRUE)

NextRace ==
    \/ RaceAssign
    \/ RaceCheck
    \/ ReadLock
    \/ OpenLock
    \/ WriteLock
    \/ RaceLoad
    \/ RaceSave
    \/ Release
    \/ RaceSpawn

SpecRace == Init /\ [][NextRace]_vars

\* -------------------------------------------------- archive specification
\* One session works through a long queue: NumBatchTasks tasks assigned
\* with the shared batch_id 1 and NumFillers tasks assigned without one
\* (each gets its own generated batch_id).  The tasks are assigned in id
\* order, the session claims them when all are queued, and each is
\* completed once, after a telemetry snapshot was written for it: the tasks
\* of the shared batch at any moment, the others in id order.
BatchOf(t) == IF t <= NumBatchTasks THEN 1 ELSE NoBatch
InTurn(t) ==
    /\ t \in DOMAIN queue
    /\ queue[t].status = "in_progress"
    /\ t > NumBatchTasks
         => \A u \in (NumBatchTasks + 1)..(t - 1) : u \notin DOMAIN queue

ArchiveAssign ==
    /\ now = 1
    /\ \E t \in ArchiveIds :
          /\ t = Cardinality(DOMAIN queue) + 1
          /\ AssignTask(t, "d1", BatchOf(t))
ArchiveClaim == Pending(queue) = ArchiveIds /\ ProcessQueue("none")
ArchiveCapture ==
    /\ telemetry = NoSnapshot
    /\ \E t \in ArchiveIds, o \in 1..MaxTokens :
          /\ InTurn(t)
          /\ t > NumBatchTasks => o = 1
          /\ CaptureTokenTelemetry(t, MaxTokens, o)
ArchiveComplete ==
    \E t \in ArchiveIds :
        /\ InTurn(t)
        /\ telemetry.task_id = t
        /\ LogTaskCompletion(t, "done", "none", "none", FALSE, NoAuto)

\* the session reports an id once more whose Result was archived already
ArchiveRepeat ==
    /\ now <= NumBatchTasks + NumFillers + MaxRepeats
    /\ telemetry = NoSnapshot
    /\ \E t \in ArchiveIds :
          /\ \E i \in 1..Len(archive) : archive[i].task_id = t
          /\ t \notin DOMAIN results
          /\ LogTaskCompletion(t, "done", "none", "none", FALSE, NoAuto)

NextArchive ==
    \/ ArchiveAssign
    \/ ArchiveClaim
    \/ ArchiveCapture
    \/ ArchiveComplete
    \/ ArchiveRepeat

SpecArchive == Init /\ [][NextArchive]_vars

\* ------------------------------------------ failing archive specification
\* The same long queue, worked through once, with an archive log that may
\* refuse the append.
ArchiveCompleteFault ==
    \E t \in ArchiveIds, afault \in BOOLEAN :
        /\ InTurn(t)
        /\ telemetry.task_id = t
        /\ LogTaskCompletion(t, "done", "none", "none", afault, NoAuto)

NextArchiveFault ==
    \/ ArchiveAssign
    \/ ArchiveClaim
    \/ ArchiveCapture
    \/ ArchiveCompleteFault

SpecArchiveFault == Init /\ [][NextArchiveFault]_vars

\* ------------------------------------------------ telemetry specification
\* A session captures snapshots and reports completions; the steps of the
\* telemetry merge may fail.
TelemetryAssign == \E t \in MainIds, b \in {1, NoBatch} : AssignTask(t, "d1", b)
TelemetryClaim == ProcessQueue("none")
TelemetryCapture ==
    \E t \in MainIds, i \in 1..MaxTokens : CaptureTokenTelemetry(t, i, 1)
TelemetryComplete ==
    /\ now < MaxTime
    /\ \E t \in MainIds, s \in {"done", "error"}, m \in MergeFaults :
          LogTaskCompletionMerge(t, s, "none", "none", FALSE, NoAuto, m)

NextTelemetry ==
    \/ TelemetryAssign
    \/ TelemetryClaim
    \/ TelemetryCapture
    \/ TelemetryComplete

SpecTelemetry == Init /\ [][NextTelemetry]_vars

\* -------------------------------------------------- session specification
\* execute_queue calls made one after the other, and the spawned session
\* following its instructions: step 2 of the prompt is a process_queue call.
SessionAssign == \E t \in MainIds : AssignTask(t, "d1", NoBatch)
SessionCheck == NoCallInFlight /\ \E p \in Callers : ExecCheck(p)
SessionReadQueue == AliveAgents # {} /\ ProcessQueue("none")

NextSession ==
    \/ SessionAssign
    \/ SessionCheck
    \/ ReadLock
    \/ OpenLock
    \/ WriteLock
    \/ RaceLoad
    \/ RaceSave
    \/ Release
    \/ RaceSpawn
    \/ SessionReadQueue

SpecSession == Init /\ [][NextSession]_vars

\* --------------------------------------------------- intake specification
\* Tasks arrive in batches and are claimed or cancelled.
BatchAssign == \E tasks \in BatchInputs : BatchAssignTasks(tasks)
BatchClaim == ProcessQueue("none")
BatchCancel == \E t \in MainIds : CancelTask(t, "none")

NextBatch ==
    \/ BatchAssign
    \/ BatchClaim
    \/ BatchCancel

SpecBatch == Init /\ [][NextBatch]_vars

\* -------------------------------------------------- writers specification
\* Processes that assign tasks and report completions at the same time.
WriterAssignLoad == \E p \in Callers, t \in MainIds : AssignLoad(p, t)
WriterAssignSave == \E p \in Callers : AssignSave(p)
WriterCompleteLoad ==
    /\ now < MaxTime
    /\ \E p \in Callers, t \in MainIds : CompleteLoad(p, t)
WriterCompleteSave ==
    /\ now < MaxTime
    /\ \E p \in Callers : CompleteSave(p)

NextWriters ==
    \/ WriterAssignLoad
    \/ WriterAssignSave
    \/ WriterCompleteLoad
    \/ WriterCompleteSave

SpecWriters == Init /\ [][NextWriters]_vars

\* --------------------------------------------------- poller specification
\* The background poller runs one session per queued task; a session may
\* report its task with log_task_completion before it exits, with whatever
\* status string it chooses.
CallerStatuses == {"done", "error", "finished"}

PollAssign == \E t \in MainIds : AssignTask(t, "d1", NoBatch)
PollCheck == \E installed \in BOOLEAN : PollerCheckForNewTasks(installed)
PollExit ==
    /\ now < MaxTime
    /\ \E t \in MainIds, exit_ok \in BOOLEAN : PollerSessionExit(t, exit_ok)
PollComplete ==
    /\ now < MaxTime
    /\ \E t \in MainIds, s \in CallerStatuses :
          LogTaskCompletion(t, s, "none", "none", FALSE, NoAuto)

NextPoll ==
    \/ PollAssign
    \/ PollCheck
    \/ PollExit
    \/ PollComplete

SpecPoll == Init /\ [][NextPoll]_vars

\* --------------------------------------------------- reader specification
\* Every reader of the queue document, each of which may find the document
\* malformed (a writer is in the middle of its write); completions fill the
\* result store.
ReadAssign == \E t \in MainIds, m \in BOOLEAN : AssignTaskRead(t, "d1", NoBatch, m)
ReadCheck == \E t \in MainIds \cup {NoId}, qf \in {"none", "read"},
                rf \in {"none", "read"} : CheckTaskStatus(t, qf, rf)
ReadProcess == \E f \in {"none", "read"} : ProcessQueue(f)
ReadPoll == \E i \in BOOLEAN, m \in BOOLEAN : PollerCheckForNewTasksRead(i, m)
ReadComplete ==
    /\ now < MaxTime
    /\ \E t \in MainIds, s \in {"done", "error"} :
          LogTaskCompletion(t, s, "none", "none", FALSE, NoAuto)

NextRead ==
    \/ ReadAssign
    \/ ReadCheck
    \/ ReadProcess
    \/ ReadPoll
    \/ ReadComplete

SpecRead == Init /\ [][NextRead]_vars

\* ----------------------------------------------- protection specification
\* The queue file is made read-only between operations (the protective
\* step safe_write_queue exists for), and every operation that writes the
\* queue is called; no read or write fails for another reason.
ProtectQueueFile ==
    /\ queue_exists /\ queue_writable
    /\ queue_writable' = FALSE
    /\ UNCHANGED <<queue_exists, queue, results, archive, telemetry, lock, now,
                   ret, callerVars, agents, pollerVars>>

PermAssign == \E t \in MainIds : AssignTask(t, "d1", NoBatch)
PermCancel == \E t \in MainIds : CancelTask(t, "none")
PermUpdate == \E t \in MainIds : UpdateTask(t, "d2", NoPrio, "none")
PermMark == \E t \in MainIds : MarkTaskInProgress(t, "none")
PermProcess == ProcessQueue("none")
PermComplete ==
    /\ now < MaxTime
    /\ \E t \in MainIds : LogTaskCompletion(t, "done", "none", "none", FALSE, NoAuto)

NextPerm ==
    \/ ProtectQueueFile
    \/ PermAssign
    \/ PermCancel
    \/ PermUpdate
    \/ PermMark
    \/ PermProcess
    \/ PermComplete

SpecPerm == Init /\ [][NextPerm]_vars

\* =================================================================== claims

\* a caller that has written the sentinel and not yet returned
Acquired == {"load", "save", "spawn", "release"}
\* the step with which the call of p returns to its (living) caller
Returns(p) == pc[p] # "idle" /\ pc'[p] = "idle" /\ caller_alive'[p]

\* -------------------------------------------------------------------- C1
\* C1 (as stated): an execute_queue call that begins while an agent spawned
\* by an earlier call is alive, and returns while that agent is still alive,
\* returns already_running and spawns no agent; also after the process of
\* the earlier call has exited and after new tasks have been queued.
C1_SecondCallAlreadyRunning ==
    [][\A p \in Callers :
          (Returns(p) /\ \E a \in call_saw[p] : agents[a].alive)
          => /\ exec_result'[p] = "already_running"
             /\ agents' = agents]_vars

\* -------------------------------------------------------------------- C2
\* C2 (as stated): of two processes that both found no sentinel, at most one
\* holds the lock at a time, and they never claim the same task for two
\* sessions.
C2_AtMostOneAcquires ==
    \A p \in Callers, q \in Callers :
        (p # q /\ passed[p] = "absent" /\ passed[q] = "absent")
        => /\ ~(pc[p] \in Acquired /\ pc[q] \in Acquired)
           /\ (pc[p] = "spawn" /\ pc[q] = "spawn")
                => pq_result[p] \cap pq_result[q] = {}

\* -------------------------------------------------------------------- C3
\* C3 (as stated): log_task_completion for a task in the queue removes it
\* from the queue and creates its Result; log_task_completion for a task_id
\* that is no longer in the queue and has its Result returns a not-found
\* error and creates or changes no Result.  (Calls whose file reads and writes all succeed.)
C3_CompleteOnceThenNotFound ==
    [][\A t \in MainIds, s \in {"done", "error"} :
          LogTaskCompletion(t, s, "none", "none", FALSE, NoAuto)
          => IF t \in DOMAIN queue
             THEN /\ t \notin DOMAIN queue'
                  /\ t \in DOMAIN results'
                  /\ ret'.status = "success"
             ELSE t \in DOMAIN results
                  => /\ ret'.kind = "not_found"
                     /\ results' = results]_vars

\* -------------------------------------------------------------------- C4
\* C4 (as stated): after a log_task_completion call for a task that is in
\* the queue and has no Result, whatever read or write of it failed, the
\* task is either still in the queue with no Result or absent from the queue
\* with its Result present.
C4_CompletionAllOrNothing ==
    [][\A t \in MainIds, s \in {"done", "error"}, qf \in Faults, rf \in Faults :
          (/\ t \in DOMAIN queue
           /\ t \notin DOMAIN results
           /\ LogTaskCompletion(t, s, qf, rf, FALSE, NoAuto))
          => \/ (t \in DOMAIN queue' /\ t \notin DOMAIN results')
             \/ (t \notin DOMAIN queue' /\ t \in DOMAIN results')]_vars

C6_UpdateOnlyQueued ==
    [][\A t \in MainIds, u \in UpdateInputs, f \in Faults :
          (t \in DOMAIN queue /\ UpdateTask(t, u[1], u[2], f))
          => LET d == u[1]
                 pr == u[2]
             IN
             IF queue[t].status # "queued"
             THEN /\ ret'.status = "error"
                  /\ queue' = queue
                  /\ (f # "read" /\ (d # NoDesc \/ pr # NoPrio))
                       => /\ ret'.kind = "state_conflict"
                          /\ ret'.named = queue[t].status
             ELSE (f = "none" /\ (d # NoDesc \/ pr # NoPrio))
                       => /\ ret'.status = "success"
                          /\ queue'[t].status = "queued"
                          /\ queue'[t].updated_at = now
                          /\ d # NoDesc => queue'[t].description = d
                          /\ pr # NoPrio => queue'[t].priority = pr]_vars

\* an update of a claimed task has just been rejected, naming in_progress
C6_Witness ==
    /\ ret.op = "update_task"
    /\ ret.kind = "state_conflict"
    /\ ret.named = "in_progress"
    /\ ret.task_id \in DOMAIN queue
    /\ queue[ret.task_id].status = "in_progress"

\* -------------------------------------------------------------------- C7
\* C7 (as stated): a call that found the sentinel present but unreadable
\* changes no task status and spawns no agent in any of its steps.
C7_UnreadableMeansNoDispatch ==
    [][\A p \in Callers :
          (passed[p] = "unreadable" /\ pc[p] # "idle" /\ pc'[p] # pc[p])
          => /\ queue' = queue
             /\ agents' = agents]_vars

C9_StaleLockReclaimed ==
    [][\A p \in Callers :
          passed[p] = "stale"
          => /\ exec_result'[p] # "already_running"
             /\ (pc[p] = "remove" /\ pc'[p] = "open") => ~lock'.present
             /\ (pc[p] = "write" /\ pc'[p] = "load" /\ lock.present)
                  => lock' = LockOf(p)
             /\ (pc[p] = "load" /\ pc'[p] # "load" /\ caller_alive'[p]
                 /\ Pending(queue) # {} /\ exec_result'[p] # "queue_error")
                  => pc'[p] = "save"
             /\ (pc[p] = "save" /\ pc'[p] = "spawn" /\ queue' # queue)
                  => /\ pq_result'[p] # {}
                     /\ \A t \in pq_result'[p] :
                            /\ t \in DOMAIN queue'
                            /\ queue'[t].status = "in_progress"
                     /\ Pending(queue') = {}
             /\ (pc[p] = "spawn" /\ Returns(p))
                  => \/ exec_result'[p] = "spawn_error"
                     \/ /\ exec_result'[p] = "task_started"
                        /\ Len(agents') = Len(agents) + 1
                        /\ agents'[Len(agents')].alive
                        /\ agents'[Len(agents')].tasks = pq_result[p]]_vars

\* a call that found a stale sentinel has returned task_started and holds
\* the sentinel, and its session runs
C9_Witness ==
    \E p \in Callers :
        /\ passed[p] = "stale"
        /\ pc[p] = "idle"
        /\ exec_result[p] = "task_started"
        /\ lock = LockOf(p)
        /\ \E a \in AliveAgents : agents[a].tasks # {}

\* -------------------------------------------------------------------- C10
\* a Result of this batch was written before, whether it is still in the
\* result store or was moved to the archive since
CompletedBefore(batch_id) ==
    \/ \E u \in DOMAIN results : results[u].batch_id = batch_id
    \/ \E i \in 1..Len(archive) : archive[i].batch_id = batch_id

\* C10 (as stated): a task of a batch that completes with a telemetry
\* snapshot present gets tokens.input equal to the snapshot's tokens_input
\* when no task of its batch completed before it and tokens.input 0 when one
\* did, and in both cases tokens.output equal to the snapshot's
\* tokens_output; also when Results were archived in between.
C10_OnlyFirstOfBatchGetsInput ==
    [][\A t \in ArchiveIds :
          (/\ t \in DOMAIN queue
           /\ telemetry # NoSnapshot
           /\ LogTaskCompletion(t, "done", "none", "none", FALSE, NoAuto))
          => /\ t \in DOMAIN results'
             /\ results'[t].tokens.output = telemetry.tokens_output
             /\ results'[t].tokens.input =
                    IF CompletedBefore(queue[t].batch_id)
                    THEN 0 ELSE telemetry.tokens_input]_vars

\* -------------------------------------------------------------------- C11
\* C11 (as stated): after any sequence of log_task_completion calls the
\* result store holds at most RetentionCap entries.
C11_StoreWithinCap == Cardinality(DOMAIN results) <= RetentionCap

\* -------------------------------------------------------------------- C12
\* C12 (as stated): a task_id whose Result was moved to the archive log is
\* never again in the result store nor in what get_all_results and
\* get_task_results return.
C12_ArchivedNeverListed ==
    \A i \in 1..Len(archive) :
        /\ archive[i].task_id \notin DOMAIN results
        /\ archive[i].task_id \notin DOMAIN GetAllResults
        /\ archive[i].task_id \notin DOMAIN GetTaskResults

\* -------------------------------------------------------------------- C13
\* C13 (as stated): no step changes the status or the completed_at of a
\* Result that stays in the result store.
C13_ResultAppendOnly ==
    [][\A t \in DOMAIN results :
          t \in DOMAIN results'
          => /\ results'[t].status = results[t].status
             /\ results'[t].completed_at = results[t].completed_at]_vars

\* -------------------------------------------------------------------- C14
\* C14 (as stated): when a task completes while the snapshot present was
\* captured for a different task, its Result receives no tokens.
C14_SnapshotOnlyForItsTask ==
    [][\A t \in MainIds, s \in {"done", "error"}, m \in MergeFaults :
          (/\ telemetry # NoSnapshot
           /\ telemetry.task_id # t
           /\ LogTaskCompletionMerge(t, s, "none", "none", FALSE, NoAuto, m))
          => results'[t].tokens = NoTokens]_vars

\* -------------------------------------------------------------------- C15
\* C15 (as stated): after a log_task_completion that found a snapshot and
\* wrote its Result, the snapshot no longer exists, whichever step of the
\* merge failed.
C15_SnapshotConsumedOnce ==
    [][\A t \in MainIds, s \in {"done", "error"}, m \in MergeFaults :
          (/\ telemetry # NoSnapshot
           /\ LogTaskCompletionMerge(t, s, "none", "none", FALSE, NoAuto, m))
          => telemetry' = NoSnapshot]_vars

\* -------------------------------------------------------------------- C16
\* C16 (as stated): a process_queue call made while no lock sentinel exists
\* (so that its caller cannot hold the lock) changes no task status.
C16_BulkClaimOnlyUnderLock ==
    [][\A f \in Faults :
          (~lock.present /\ ProcessQueue(f)) => queue' = queue]_vars

\* -------------------------------------------------------------------- C17
\* C17 (as stated): at no time are two sessions spawned by the poller, or
\* one spawned by the poller and one spawned by execute_queue, running.
C17_PollerSingleFlight ==
    Cardinality(poller_running) + Cardinality(AliveAgents) <= 1

\* -------------------------------------------------------------------- C18
\* C18 (as stated): the tasks the session obtains from the process_queue
\* call its instructions tell it to make are the tasks that the dispatch
\* which spawned it marked in_progress.
C18_SessionToldItsTasks ==
    [][\A a \in AliveAgents :
          (AliveAgents = {a} /\ ProcessQueue("none"))
          => ret'.tasks = agents[a].tasks]_vars

\* -------------------------------------------------------------------- C19
\* C19 (as stated): log_task_completion for a task that is in the queue
\* with a status other than in_progress is rejected with a state-conflict
\* error and changes neither the queue nor the result store.
C19_CompleteOnlyInProgress ==
    [][\A t \in MainIds, s \in {"done", "error"} :
          (/\ t \in DOMAIN queue
           /\ queue[t].status # "in_progress"
           /\ LogTaskCompletion(t, s, "none", "none", FALSE, NoAuto))
          => /\ ret'.kind = "state_conflict"
             /\ queue' = queue
             /\ results' = results]_vars

\* -------------------------------------------------------------------- C20
\* an item batch_assign_tasks is to insert: a dictionary with a task_id (and
\* what assign_task requires of it, a description)
ItemValid(task) ==
    task.is_dict /\ task.task_id # NoId /\ task.description # NoDesc

\* C20 (as stated): batch_assign_tasks on a non-empty list returns one
\* details entry per item, failed for an invalid item and success for a
\* valid one, every valid item stands in the queue as queued afterwards, and
\* success_count + failed_count is the number of items.
C20_BatchItemsIndependent ==
    [][\A tasks \in BatchInputs :
          (tasks # <<>> /\ BatchAssignTasks(tasks))
          => /\ ret'.status # "raised"
             /\ Len(ret'.details) = Len(tasks)
             /\ ret'.success_count + ret'.failed_count = Len(tasks)
             /\ \A i \in 1..Len(tasks) :
                    IF ItemValid(tasks[i])
                    THEN /\ ret'.details[i] = "success"
                         /\ tasks[i].task_id \in DOMAIN queue'
                         /\ queue'[tasks[i].task_id].status = "queued"
                    ELSE ret'.details[i] = "error"]_vars

\* -------------------------------------------------------------------- C21
\* C21 (as stated): assign_task without a task_id or without a description
\* returns an error result, does not raise, and leaves the queue document
\* unchanged, with and without a batch_id.
C21_AssignInvalidIsStructuredError ==
    [][\A t \in MainIds \cup {NoId}, d \in {"d1", NoDesc}, b \in {1, NoBatch} :
          ((t = NoId \/ d = NoDesc) /\ AssignTask(t, d, b))
          => /\ ret'.status = "error"
             /\ ret'.kind \in {"missing_task_id", "missing_description"}
             /\ queue' = queue
             /\ queue_exists' = queue_exists]_vars

\* -------------------------------------------------------------------- C22
\* C22 (as stated): each operation that writes the queue, called on an
\* existing queue file where it has something to write, succeeds and
\* makes its change whether the file was read-only or writable before, and
\* leaves the file's write permission as it found it.
C22_WritesThroughReadOnly ==
    [][/\ \A t \in MainIds :
             (queue_exists /\ AssignTask(t, "d1", NoBatch))
             => /\ ret'.status = "success"
                /\ t \in DOMAIN queue'
                /\ queue_writable' = queue_writable
       /\ \A t \in MainIds :
             (/\ t \in DOMAIN queue
              /\ ~CancelStatusBlocked(queue[t].status)
              /\ CancelTask(t, "none"))
             => /\ ret'.status = "success"
                /\ queue'[t].status = "cancelled"
                /\ queue_writable' = queue_writable
       /\ \A t \in MainIds :
             (/\ t \in DOMAIN queue
              /\ UpdateStatusAllowed(queue[t].status)
              /\ UpdateTask(t, "d2", NoPrio, "none"))
             => /\ ret'.status = "success"
                /\ queue'[t].description = "d2"
                /\ queue_writable' = queue_writable
       /\ \A t \in MainIds :
             (/\ t \in DOMAIN queue
              /\ MarkStatusAllowed(queue[t].status)
              /\ MarkTaskInProgress(t, "none"))
             => /\ ret'.status = "success"
                /\ queue'[t].status = "in_progress"
                /\ queue_writable' = queue_writable
       /\ (Pending(queue) # {} /\ ProcessQueue("none"))
             => /\ ret'.status = "success"
                /\ Pending(queue') = {}
                /\ queue_writable' = queue_writable
       /\ \A t \in MainIds :
             (/\ t \in DOMAIN queue
              /\ LogTaskCompletion(t, "done", "none", "none", FALSE, NoAuto))
             => /\ ret'.status = "success"
                /\ t \notin DOMAIN queue'
                /\ queue_writable' = queue_writable]_vars

\* -------------------------------------------------------------------- C23
\* C23 (as stated): a reader that finds the queue document malformed acts
\* as on a queue with no tasks and neither raises nor returns an error:
\* assign_task writes the new task, check_task_status goes on to the result
\* store, process_queue returns no tasks and changes nothing, and the poller
\* changes nothing.
C23_MalformedQueueIsEmptyQueue ==
    [][/\ \A t \in MainIds :
             (queue_exists /\ AssignTaskRead(t, "d1", NoBatch, TRUE))
             => /\ ret'.status = "success"
                /\ t \in DOMAIN queue'
       /\ \A t \in MainIds :
             (queue_exists /\ CheckTaskStatus(t, "read", "none"))
             => /\ ret'.status # "raised"
                /\ t \in DOMAIN results => ret'.status = "success"
       /\ (queue_exists /\ ProcessQueue("read"))
             => /\ ret'.status = "success"
                /\ ret'.tasks = {}
                /\ queue' = queue
       /\ \A i \in BOOLEAN :
             PollerCheckForNewTasksRead(i, TRUE) => UNCHANGED vars]_vars

\* -------------------------------------------------------------------- C24
TaskStatuses == {"queued", "in_progress", "done", "error", "cancelled"}
ResultStatuses == {"done", "error"}

\* C24 (as stated): every task in the queue has a status among queued,
\* in_progress, done, error and cancelled, and every Result has status done
\* or error.
C24_StatusesWithinEnum ==
    /\ \A t \in DOMAIN queue : queue[t].status \in TaskStatuses
    /\ \A t \in DOMAIN results : results[t].status \in ResultStatuses

\* -------------------------------------------------------------------- C25
\* C25: a process_queue call whose read and write of the queue document
\* succeed moves every queued task to in_progress, with one and the same
\* started_at for all of them, and returns exactly those tasks; whether or
\* not its read or write fails, it leaves every task of another status
\* unchanged and adds or removes no task.
C25_BulkClaimFrame ==
    [][\A f \in Faults :
          (queue_exists /\ ProcessQueue(f))
          => /\ DOMAIN queue' = DOMAIN queue
             /\ \A t \in DOMAIN queue :
                    queue[t].status # "queued" => queue'[t] = queue[t]
             /\ f = "none"
                  => /\ ret'.status = "success"
                     /\ ret'.tasks = Pending(queue)
                     /\ \A t \in Pending(queue) :
                            queue'[t] = [queue[t] EXCEPT !.status = "in_progress",
                                                         !.started_at = now]
                     /\ \A t \in Pending(queue), u \in Pending(queue) :
                            queue'[t].started_at = queue'[u].started_at]_vars

\* process_queue has just claimed a task and left a cancelled one alone
\* (the poller has started no session, so the claim is process_queue's)
C25_Witness ==
    /\ ret.op = "process_queue"
    /\ ret.kind = "pending"
    /\ processed_tasks = {}
    /\ Pending(queue) = {}
    /\ \E t \in ret.tasks :
          /\ t \in DOMAIN queue
          /\ queue[t].status = "in_progress"
          /\ queue[t].started_at = now
    /\ \E u \in (DOMAIN queue) \ ret.tasks :
          /\ queue[u].status = "cancelled"
          /\ queue[u].started_at = NoTime

\* -------------------------------------------------------------------- C26
\* C26: a log_task_completion call that finds more than RetentionCap
\* Results and cannot append to the archive log writes a result store that
\* holds every Result it found, unchanged, plus the new one, and leaves the
\* archive log as it was; and whether or not the append fails, a Result
\* that leaves the store is in the archive log afterwards.
C26_NoResultLostOnArchiveFailure ==
    [][\A t \in ArchiveIds, afault \in BOOLEAN :
          (/\ ArchiveNeeded(results)
           /\ LogTaskCompletion(t, "done", "none", "none", afault, NoAuto))
          => /\ t \in DOMAIN results'
             /\ results'[t].completed_at = now
             /\ \A k \in (DOMAIN results) \ {t} :
                    \/ /\ k \in DOMAIN results'
                       /\ results'[k] = results[k]
                    \/ /\ ~afault
                       /\ \E i \in 1..Len(archive') :
                              archive'[i] = ArchiveEntry(results, k)
             /\ afault => /\ archive' = archive
                          /\ \A k \in DOMAIN results : k \in DOMAIN results']_vars

\* the archive append failed on the completion that found RetentionCap + 1
\* Results: the store holds them all and the new one, the archive nothing
C26_Witness ==
    /\ ret.op = "log_task_completion"
    /\ ret.status = "success"
    /\ Cardinality(DOMAIN results) = RetentionCap + 2
    /\ archive = <<>>
    /\ ret.task_id \in DOMAIN results
    /\ results[ret.task_id].completed_at = now - 1

\* -------------------------------------------------------------------- C27
\* C27: nothing keeps two processes from standing between their load and
\* their save of the queue document at once, and the save of either writes
\* its own loaded document with its own change: whatever task another
\* process added to the file since the load is missing afterwards, whatever
\* task another process removed since is back, and the call returns success
\* all the same.
C27_LastWholeDocumentWriteWins ==
    [][\A p \in Callers :
          /\ AssignSave(p)
               => /\ ret'.status = "success"
                  /\ WriterTask(p) \in DOMAIN queue'
                  /\ \A k \in MainIds \ {WriterTask(p)} :
                         k \in DOMAIN queue' <=> k \in DOMAIN pq_loaded[p]
          /\ CompleteSave(p)
               => /\ ret'.status = "success"
                  /\ WriterTask(p) \notin DOMAIN queue'
                  /\ WriterTask(p) \in DOMAIN results'
                  /\ \A k \in MainIds \ {WriterTask(p)} :
                         k \in DOMAIN queue' <=> k \in DOMAIN pq_loaded[p]]_vars

\* an assign_task call has returned success for a task that was never
\* completed and is not in the queue: the save of a log_task_completion for
\* another task, loaded before, has dropped it
C27_Witness ==
    \E p \in Callers, q \in Callers :
        /\ p # q
        /\ pc[p] = "idle" /\ exec_result[p] = "assigned"
        /\ pc[q] = "idle" /\ exec_result[q] = "logged"
        /\ WriterTask(p) # WriterTask(q)
        /\ WriterTask(p) \notin DOMAIN queue
        /\ WriterTask(p) \notin DOMAIN results
        /\ WriterTask(q) \in DOMAIN results

\* -------------------------------------------------------------------- C28
\* the tasks of this batch whose Result was written before, whether the
\* Result is still in the result store or was moved to the archive since
CompletedTasksOf(batch_id) ==
    {k \in DOMAIN results : results[k].batch_id = batch_id}
    \cup {archive[i].task_id : i \in {j \in 1..Len(archive) :
                                          archive[j].batch_id = batch_id}}

\* C28 (as stated): the task of a batch that completes after k - 1 other
\* tasks of its batch gets batch_position k; also when Results were
\* archived in between.
C28_BatchPositionCountsCompletions ==
    [][\A t \in ArchiveIds :
          (/\ t \in DOMAIN queue
           /\ LogTaskCompletion(t, "done", "none", "none", FALSE, NoAuto))
          => /\ t \in DOMAIN results'
             /\ results'[t].batch_position =
                    Cardinality(CompletedTasksOf(queue[t].batch_id) \ {t}) + 1]_vars

\* -------------------------------------------------------------------- C29
\* C29: assign_task for a task_id that is in the queue, whatever the status
\* of that task, replaces its record: afterwards the task is queued with
\* the new description and without started_at, cancelled_at, updated_at or
\* completed_at, every other task is unchanged, and a process_queue call
\* made next would claim it.
C29_AssignReplacesRecord ==
    [][\A t \in MainIds :
          (t \in DOMAIN queue /\ AssignTask(t, "d1", NoBatch))
          => /\ ret'.status = "success"
             /\ DOMAIN queue' = DOMAIN queue
             /\ \A k \in (DOMAIN queue) \ {t} : queue'[k] = queue[k]
             /\ queue'[t].status = "queued"
             /\ queue'[t].description = "d1"
             /\ queue'[t].priority = "medium"
             /\ queue'[t].batch_id = AutoBatch(t)
             /\ queue'[t].started_at = NoTime
             /\ queue'[t].cancelled_at = NoTime
             /\ queue'[t].updated_at = NoTime
             /\ queue'[t].completed_at = NoTime
             /\ t \in Pending(queue')]_vars

\* assign_task has just returned success for a task for which the poller
\* had started a session before (which made it in_progress): the task is
\* queued again, without started_at, and the session still runs
C29_Witness ==
    /\ ret.op = "assign_task"
    /\ ret.status = "success"
    /\ ret.task_id \in processed_tasks \cap poller_running
    /\ ret.task_id \in Pending(queue)
    /\ queue[ret.task_id].started_at = NoTime

\* -------------------------------------------------------------------- C30
\* C30: check_task_status, when it can read the queue document, reports
\* the queue status of a task that is in the queue, whether or not a Result
\* of that task exists and whether or not the result store can be read; for
\* a task that is only in the result store it reports task_status done,
\* whatever status the Result holds; and it changes no file.
C30_QueueFirstThenDone ==
    [][\A t \in MainIds, rf \in {"none", "read"} :
          CheckTaskStatus(t, "none", rf)
          => /\ UNCHANGED fileVars
             /\ IF t \in DOMAIN queue
                THEN /\ ret'.status = "success"
                     /\ ret'.kind = "in_queue"
                     /\ ret'.named = queue[t].status
                ELSE IF rf = "none" /\ t \in DOMAIN results
                THEN /\ ret'.status = "success"
                     /\ ret'.kind = "in_results"
                     /\ ret'.named = "done"
                ELSE ret'.status = "error"]_vars

\* check_task_status has just reported done for a task whose Result holds
\* the status error
C30_Witness ==
    /\ ret.op = "check_task_status"
    /\ ret.kind = "in_results"
    /\ ret.named = "done"
    /\ ret.task_id \notin DOMAIN queue
    /\ ret.task_id \in DOMAIN results
    /\ results[ret.task_id].status = "error"

====
